---- MODULE Spec2Model ----
(***************************************************************************)
(* A model of atree (src/atree.py): the null-aware algebra, the comparator *)
(* used for sorting, the bounded Top-K selector and the recursive walk     *)
(* Tree._gather with the display-set reconstruction of Tree._build.        *)
(*                                                                         *)
(* Python's None is modelled as the empty tuple and a present value x as   *)
(* the one-element tuple <<x>>, so that "a is not None" is a test the      *)
(* model can make on any value.                                            *)
(***************************************************************************)
EXTENDS Integers, Sequences, FiniteSets, TLC

VARIABLES
    alg,            \* the null-aware algebra: the last call, its arguments and result
    sel,            \* a Top-K selector fed a stream of values
    srt,            \* a list of children sorted for display
    mem,            \* one Node read through its cached properties
    prd,            \* a Predicate built from Pattern and Ignore parts
    cfg,            \* the arguments of Tree.__init__
    fs,             \* the file system: what lstat, stat and reading a node give
    node,           \* the Node objects created so far, with their attributes
    stack,          \* the active calls of Tree._gather, innermost first
    top_heap,       \* Tree.top_heap._list
    dup_map,        \* Tree.dup_map
    dup_set,        \* Tree.dup_set
    save_set,       \* Tree.save_set
    show_set,       \* Tree.show_set
    level_reached,  \* Tree._level_reached
    status          \* "walk", "built", or the exception that ended the run

walk == <<cfg, fs, node, stack, top_heap, dup_map, dup_set, save_set, show_set,
          level_reached, status>>

vars == <<alg, sel, srt, mem, prd, walk>>

\* the walk's variables while another part of the program is exercised
WalkIdle ==
    /\ cfg = <<>> /\ fs = <<>> /\ node = <<>> /\ stack = <<>>
    /\ top_heap = <<>> /\ dup_map = <<>> /\ dup_set = {}
    /\ save_set = {} /\ show_set = {} /\ level_reached = 0
    /\ status = "idle"

\* ----- bounds ------------------------------------------------------------
\* largest attribute value (lines, size) drawn for an input
MaxVal == 3
\* longest collection handed to best_of / sum_of, longest list sorted
MaxNodes == 3
\* largest capacity of the Top-K selector (top_count)
MaxK == 2
\* longest stream of values offered to the selector
MaxOffers == 4
\* largest sort-key value (a line count, or the rank of a string)
MaxKey == 2
\* most lines of a text file of the walked file system
MaxLines == 2
\* st_size of a directory, and of a symbolic link
DirSize == 2
LinkSize == 1
\* the bound of the field filters "lines>=N" and "rlines>=N"
FilterVal == 2
\* most reads of the properties of one node
MaxReads == 3
\* most tests handed to one Pattern or Ignore
MaxTests == 2
\* most parts combined into one predicate with +=
MaxParts == 2

\* ----- values or absent ---------------------------------------------------
None == <<>>

Some(x) == <<x>>

\* "a is not None"
present(a) == a # None

val(a) == a[1]

\* int(bool)
int(b) == IF b THEN 1 ELSE 0

OptVals == {None} \cup {Some(v) : v \in 0..MaxVal}

Range(s) == {s[i] : i \in DOMAIN s}

\* x reversed
RECURSIVE Reverse(_)
Reverse(s) == IF s = <<>> THEN <<>> ELSE Append(Reverse(Tail(s)), Head(s))

\* ----- Utilities: Compare Functions ---------------------------------------
lt(a, b) ==
    LET i == int(present(a)) + 2 * int(present(b))
    IN  (i = 2) \/ (i = 3 /\ val(a) < val(b))

\* a le that does not take None <= None to be true
le_NoneStrict(a, b) ==
    LET i == int(present(a)) + 2 * int(present(b))
    IN  (i = 2) \/ (i = 3 /\ val(a) <= val(b))

le(a, b) ==
    LET i == int(present(a)) + 2 * int(present(b))
    IN  (i = 0) \/ (i = 2) \/ (i = 3 /\ val(a) <= val(b))

gt(a, b) == lt(b, a)

ge(a, b) == le(b, a)

min_of(a, b) == IF lt(a, b) THEN a ELSE b

\* a max_of whose comparison has its operands the other way round
max_of_Swapped(a, b) == IF lt(b, a) THEN b ELSE a

\* a maximum that keeps the value it had
max_of_Kept(a, b) == b

max_of(a, b) == IF lt(a, b) THEN b ELSE a

nn_lt(a, b) == present(a) /\ lt(a, b)

nn_le(a, b) == present(a) /\ le(a, b)

add(a, b) ==
    LET i == int(present(a)) + 2 * int(present(b))
    IN  IF i = 0 THEN None
        ELSE IF i = 1 THEN a
        ELSE IF i = 2 THEN b
        ELSE Some(val(a) + val(b))

\* getattr(n, attr, None): the attribute, or None when the object has none
getattr(n, attr) == IF attr \in DOMAIN n THEN n[attr] ELSE None

\* the generator (a for a in attrs if a is not None), as a sequence of ints
RECURSIVE present_attrs(_, _)
present_attrs(nodes, attr) ==
    IF nodes = <<>> THEN <<>>
    ELSE LET a == getattr(Head(nodes), attr)
             rest == present_attrs(Tail(nodes), attr)
         IN  IF present(a) THEN <<val(a)>> \o rest ELSE rest

\* Python's max(iterable) over a non-empty sequence of ints
RECURSIVE py_max(_)
py_max(s) ==
    IF Len(s) = 1 THEN s[1]
    ELSE LET m == py_max(Tail(s)) IN IF s[1] >= m THEN s[1] ELSE m

\* Python's sum(iterable): 0 for the empty iterable
RECURSIVE py_sum(_)
py_sum(s) == IF s = <<>> THEN 0 ELSE s[1] + py_sum(Tail(s))

\* max() raises ValueError on the empty generator; best_of returns None then
best_of(nodes, attr) ==
    LET attrs == present_attrs(nodes, attr)
    IN  IF attrs = <<>> THEN None ELSE Some(py_max(attrs))

sum_of(nodes, attr) == Some(py_sum(present_attrs(nodes, attr)))

\* ----- the algebra applied to drawn inputs --------------------------------
\* collections of nodes carrying a lines attribute, present or absent
RECURSIVE NodeSeqs(_)
NodeSeqs(n) ==
    IF n = 0 THEN {<<>>}
    ELSE LET shorter == NodeSeqs(n - 1)
         IN  shorter \cup
             {Append(s, [lines |-> x]) : s \in {t \in shorter : Len(t) = n - 1},
                                         x \in OptVals}

AlgInit ==
    /\ alg = [op |-> "start", args |-> <<>>, out |-> None]
    /\ sel = <<>>
    /\ srt = <<>>
    /\ mem = <<>>
    /\ prd = <<>>
    /\ WalkIdle

Call_min_of ==
    /\ alg.op = "start"
    /\ \E a \in OptVals, b \in OptVals :
           alg' = [op |-> "min_of", args |-> <<a, b>>, out |-> min_of(a, b)]
    /\ UNCHANGED <<sel, srt, mem, prd, walk>>

Call_best_of ==
    /\ alg.op = "start"
    /\ \E ns \in NodeSeqs(MaxNodes), attr \in {"lines", "size"} :
           alg' = [op |-> "best_of", args |-> <<ns, attr>>, out |-> best_of(ns, attr)]
    /\ UNCHANGED <<sel, srt, mem, prd, walk>>

Call_sum_of ==
    /\ alg.op = "start"
    /\ \E ns \in NodeSeqs(MaxNodes), attr \in {"lines", "size"} :
           alg' = [op |-> "sum_of", args |-> <<ns, attr>>, out |-> sum_of(ns, attr)]
    /\ UNCHANGED <<sel, srt, mem, prd, walk>>

\* max_of(a, b), with a third value c at hand to combine the result with
Call_max_of ==
    /\ alg.op = "start"
    /\ \E a \in OptVals, b \in OptVals, c \in OptVals :
           alg' = [op |-> "max_of", args |-> <<a, b, c>>, out |-> max_of(a, b)]
    /\ UNCHANGED <<sel, srt, mem, prd, walk>>

\* add(a, b), with a third value c at hand to combine the result with
Call_add ==
    /\ alg.op = "start"
    /\ \E a \in OptVals, b \in OptVals, c \in OptVals :
           alg' = [op |-> "add", args |-> <<a, b, c>>, out |-> add(a, b)]
    /\ UNCHANGED <<sel, srt, mem, prd, walk>>

\* the four comparisons of a with b, with a third value c at hand
Call_compare ==
    /\ alg.op = "start"
    /\ \E a \in OptVals, b \in OptVals, c \in OptVals :
           alg' = [op |-> "compare", args |-> <<a, b, c>>,
                   out |-> [lt |-> lt(a, b), le |-> le(a, b),
                            gt |-> gt(a, b), ge |-> ge(a, b)]]
    /\ UNCHANGED <<sel, srt, mem, prd, walk>>

AlgNext ==
    \/ Call_min_of
    \/ Call_best_of
    \/ Call_sum_of
    \/ Call_max_of
    \/ Call_add
    \/ Call_compare

SpecAlg == AlgInit /\ [][AlgNext]_vars

\* ===== sorting the children of a directory ================================
\* A sort-key value is an int (numeric) or a string; a string is modelled
\* by its rank in the lexicographic order, tagged as not numeric.
Num(v) == [num |-> TRUE, v |-> v]

Str(rank) == [num |-> FALSE, v |-> rank]

\* a test that takes no key value for a number
isnumeric_Never(x) == FALSE

\* isinstance(af, (int, float))
isnumeric(x) == x.num

\* fields_to_cmp(fields)(a, b): -1, 0 or 1
RECURSIVE cmp_fields(_, _, _)
cmp_fields(fields, a, b) ==
    IF fields = <<>> THEN 0
    ELSE LET af == getattr(a, Head(fields))
             bf == getattr(b, Head(fields))
             i == int(present(af)) + int(present(bf)) * 2
         IN  IF 0 < i /\ i < 3 THEN <<0, -1, 1>>[i + 1]
             ELSE IF i = 3
             THEN LET result == int(val(af).v > val(bf).v) - int(val(af).v < val(bf).v)
                  IN  IF result # 0
                      THEN IF isnumeric(val(af)) THEN -result ELSE result
                      ELSE cmp_fields(Tail(fields), a, b)
             ELSE cmp_fields(Tail(fields), a, b)

\* a and b are nodes or None
cmp(fields, a, b) ==
    LET i == int(present(a)) + 2 * int(present(b))
    IN  IF i < 3 THEN <<0, -1, 1>>[i + 1]
        ELSE cmp_fields(fields, val(a), val(b))

\* cmp_to_key(cmp).__lt__ on two nodes of a list
K_lt(fields, x, y) == cmp(fields, Some(x), Some(y)) < 0

\* list.sort: a stable sort that only asks __lt__; x goes behind every
\* element it is not less than
RECURSIVE insort(_, _, _)
insort(fields, sorted, x) ==
    IF sorted = <<>> THEN <<x>>
    ELSE IF K_lt(fields, x, Head(sorted)) THEN <<x>> \o sorted
    ELSE <<Head(sorted)>> \o insort(fields, Tail(sorted), x)

RECURSIVE stable_sort(_, _)
stable_sort(fields, list) ==
    IF list = <<>> THEN <<>>
    ELSE insort(fields, stable_sort(fields, SubSeq(list, 1, Len(list) - 1)),
                list[Len(list)])

\* list.sort(key=cmp_to_key(cmp), reverse=reverse): with reverse the list is
\* reversed, sorted and reversed again
sort(fields, list, reverse) ==
    IF reverse THEN Reverse(stable_sort(fields, Reverse(list)))
    ELSE stable_sort(fields, list)

\* ----- children with a numeric key (lines) and a string key (md5) ---------
SortKeys == {"lines", "md5"}

SortNodes ==
    [lines : {None} \cup {Some(Num(v)) : v \in 1..MaxKey},
     md5 : {None} \cup {Some(Str(r)) : r \in 1..MaxKey}]

RECURSIVE SortLists(_)
SortLists(n) ==
    IF n = 0 THEN {<<>>}
    ELSE LET shorter == SortLists(n - 1)
         IN  shorter \cup
             {Append(l, x) : l \in {t \in shorter : Len(t) = n - 1}, x \in SortNodes}

\* the --by lists: one key, or two different keys
ByLists ==
    {<<k>> : k \in SortKeys} \cup
    {p \in SortKeys \X SortKeys : p[1] # p[2]}

SortInit ==
    /\ srt = [op |-> "start", by |-> <<>>, reverse |-> FALSE,
              nodes |-> <<>>, out |-> <<>>]
    /\ alg = <<>>
    /\ sel = <<>>
    /\ mem = <<>>
    /\ prd = <<>>
    /\ WalkIdle

\* Tree._print_node sorting the nodes of one directory
Sort ==
    /\ srt # <<>>
    /\ srt.op = "start"
    /\ \E by \in ByLists, reverse \in BOOLEAN, nodes \in SortLists(MaxNodes) :
           srt' = [op |-> "sorted", by |-> by, reverse |-> reverse,
                   nodes |-> nodes, out |-> sort(by, nodes, reverse)]
    /\ UNCHANGED <<alg, sel, mem, prd, walk>>

SortNext ==
    \/ Sort

SpecSort == SortInit /\ [][SortNext]_vars

\* ----- the comparator applied to drawn nodes ------------------------------
CmpInit ==
    /\ srt = [op |-> "start", by |-> <<>>, reverse |-> FALSE,
              nodes |-> <<>>, out |-> <<>>]
    /\ alg = <<>>
    /\ sel = <<>>
    /\ mem = <<>>
    /\ prd = <<>>
    /\ WalkIdle

\* cmp = fields_to_cmp(by) called on the pairs of three nodes
Call_cmp ==
    /\ srt # <<>>
    /\ srt.op = "start"
    /\ \E by \in ByLists, a \in SortNodes, b \in SortNodes, c \in SortNodes :
           srt' = [op |-> "cmp", by |-> by, reverse |-> FALSE,
                   nodes |-> <<a, b, c>>,
                   out |-> <<cmp(by, Some(a), Some(b)), cmp(by, Some(b), Some(c)),
                             cmp(by, Some(a), Some(c))>>]
    /\ UNCHANGED <<alg, sel, mem, prd, walk>>

CmpNext ==
    \/ Call_cmp

SpecCmp == CmpInit /\ [][CmpNext]_vars

\* a comparison of entries the other way round
vw_lt_Reversed(x, y) == val(x.value) > val(y.value)

\* ===== TREE: the Top-K selector ============================================
\* Value_and_Which.__lt__: self.value < other.value
vw_lt(x, y) == val(x.value) < val(y.value)

\* heapq._siftdown(heap, startpos, pos); positions are 0-based as in heapq
RECURSIVE siftdown_loop(_, _, _, _)
siftdown_loop(heap, startpos, pos, newitem) ==
    IF pos > startpos
    THEN LET parentpos == (pos - 1) \div 2
             parent == heap[parentpos + 1]
         IN  IF vw_lt(newitem, parent)
             THEN siftdown_loop([heap EXCEPT ![pos + 1] = parent],
                                startpos, parentpos, newitem)
             ELSE [heap EXCEPT ![pos + 1] = newitem]
    ELSE [heap EXCEPT ![pos + 1] = newitem]

siftdown(heap, startpos, pos) == siftdown_loop(heap, startpos, pos, heap[pos + 1])

\* heapq._siftup(heap, pos): bubble the smaller child up to a leaf, then
\* sift the item down from there
RECURSIVE siftup_loop(_, _, _, _)
siftup_loop(heap, endpos, pos, childpos) ==
    IF childpos < endpos
    THEN LET rightpos == childpos + 1
             c == IF rightpos < endpos
                     /\ ~vw_lt(heap[childpos + 1], heap[rightpos + 1])
                  THEN rightpos ELSE childpos
         IN  siftup_loop([heap EXCEPT ![pos + 1] = heap[c + 1]],
                         endpos, c, 2 * c + 1)
    ELSE <<heap, pos>>

siftup(heap, pos) ==
    LET newitem == heap[pos + 1]
        r == siftup_loop(heap, Len(heap), pos, 2 * pos + 1)
    IN  siftdown([r[1] EXCEPT ![r[2] + 1] = newitem], pos, r[2])

\* a heappush that appends the item and does not sift it down
heappush_NoSift(heap, item) == Append(heap, item)

\* heapq.heappush(heap, item)
heappush(heap, item) == siftdown(Append(heap, item), 0, Len(heap))

\* a heappushpop that replaces the smallest entry without comparing
heappushpop_Always(heap, item) ==
    IF heap # <<>>
    THEN siftup([heap EXCEPT ![1] = item], 0)
    ELSE heap

\* heapq.heappushpop(heap, item): the heap afterwards (the popped item is
\* dropped by every caller)
heappushpop(heap, item) ==
    IF heap # <<>> /\ vw_lt(heap[1], item)
    THEN siftup([heap EXCEPT ![1] = item], 0)
    ELSE heap

Value_and_Which(value, which) == [value |-> value, which |-> which]

\* a push that lets the list grow to capacity + 1
push_OffByOne(list, capacity, value, which) ==
    IF Len(list) <= capacity
    THEN heappush(list, Value_and_Which(value, which))
    ELSE heappushpop(list, Value_and_Which(value, which))

\* a selector that never evicts
push_Grows(list, capacity, value, which) ==
    heappush(list, Value_and_Which(value, which))

\* Top_K_and_Which.push: the _list afterwards
push(list, capacity, value, which) ==
    IF Len(list) < capacity
    THEN heappush(list, Value_and_Which(value, which))
    ELSE heappushpop(list, Value_and_Which(value, which))

\* a threshold given as soon as the list holds one entry
next_to_pop_Eager(list, capacity) ==
    IF list = <<>> THEN None ELSE list[1].value

\* Top_K_and_Which.next_to_pop
next_to_pop(list, capacity) ==
    IF Len(list) < capacity THEN None ELSE list[1].value

\* ----- the selector fed a stream of present values ------------------------
TopKInit ==
    /\ \E k \in 1..MaxK :
           sel = [capacity |-> k, list |-> <<>>, offered |-> <<>>, last |-> "new"]
    /\ alg = <<>>
    /\ srt = <<>>
    /\ mem = <<>>
    /\ prd = <<>>
    /\ WalkIdle

\* one file offered as Tree._gather offers it: skipped when
\* le(val, next_to_pop), pushed otherwise; which is the file's place in the
\* stream
Offer ==
    /\ sel # <<>>
    /\ Len(sel.offered) < MaxOffers
    /\ \E v \in 0..MaxVal :
         LET value == Some(v)
             which == Len(sel.offered) + 1
         IN  IF le(value, next_to_pop(sel.list, sel.capacity))
             THEN sel' = [sel EXCEPT !.offered = Append(@, v), !.last = "skipped"]
             ELSE sel' = [sel EXCEPT !.offered = Append(@, v),
                                     !.list = push(@, sel.capacity, value, which),
                                     !.last = "pushed"]
    /\ UNCHANGED <<alg, srt, mem, prd, walk>>

TopKNext ==
    \/ Offer

SpecTopK == TopKInit /\ [][TopKNext]_vars

\* ===== the file system walked =============================================
\* program constants (src/atree.py:64-66); a content hash is modelled by a
\* number, the hash of the empty content by 0 and the sentinel "~" by -1
EMPTY_FILE_MD5_HASH == -1

EMPTY_FILE_MD5_ORIG == 0

\* INF_INT is 0xFFFFFFFF, "No Limit"; TLC's integers end at 2^31 - 1, which
\* is as far above every level of a walked tree
INF_INT == 2147483647

Root == "r"

NodeIds == {"r", "a", "b", "s", "c", "t"}

\* the place of a node in the tree: r holds a, b and s; s holds c and t
Place(d) ==
    IF d = "r" THEN {"a", "b", "s"}
    ELSE IF d = "s" THEN {"c", "t"}
    ELSE {}

\* times differ from node to node and from one kind of time to another
Stamp(n) ==
    IF n = "r" THEN 1 ELSE IF n = "a" THEN 2 ELSE IF n = "b" THEN 3
    ELSE IF n = "s" THEN 4 ELSE IF n = "c" THEN 5 ELSE 6

Stat(n, kind, lines, size, digest) ==
    [kind |-> kind, lines |-> lines, size |-> size, digest |-> digest,
     atime |-> Stamp(n), btime |-> 1, ctime |-> 7 - Stamp(n),
     mtime |-> (3 * Stamp(n)) % 7]

\* a regular file: a text of k lines (k bytes, one per line; k = 0 is the
\* empty file), or a binary file, which has no line count
Files(n) ==
    {Stat(n, "file", Some(k), k, k) : k \in 0..MaxLines} \cup
    {Stat(n, "file", None, MaxLines + 1, MaxLines + 1)}

\* a directory
Dir(n) == Stat(n, "dir", None, DirSize, 0)

\* an entry whose lstat and stat fail (no permission, or it vanished after
\* the listing)
Broken(n) == Stat(n, "broken", None, 0, 0)

\* symbolic links to a directory and to a file
DirLink(n) == Stat(n, "dirlink", None, LinkSize, 0)

FileLink(n) == Stat(n, "filelink", None, LinkSize, 0)

\* no such entry
Absent(n) == Stat(n, "absent", None, 0, 0)

\* section 8 of the specification: a.txt 10 lines 100 bytes, b.txt 20 lines
\* 100 bytes, sub/c.txt 5 lines 50 bytes
Scenario ==
    [n \in NodeIds |->
        IF n = "a" THEN Stat(n, "file", Some(10), 100, 10)
        ELSE IF n = "b" THEN Stat(n, "file", Some(20), 100, 20)
        ELSE IF n = "c" THEN Stat(n, "file", Some(5), 50, 5)
        ELSE IF n = "t" THEN Absent(n)
        ELSE Dir(n)]

FileSystems ==
    {[n \in NodeIds |->
        IF n = "a" THEN xa ELSE IF n = "b" THEN xb ELSE IF n = "c" THEN xc
        ELSE IF n = "t" THEN xt ELSE Dir(n)] :
        xa \in Files("a"),
        xb \in Files("b") \cup {Broken("b"), DirLink("b"), FileLink("b")},
        xc \in Files("c") \cup {Absent("c")},
        xt \in {Dir("t"), Absent("t")}}
    \cup {Scenario}

\* os.listdir(d)
Entries(d) == {n \in Place(d) : fs[n].kind # "absent"}

\* the orders in which a set can be listed
Perms(S) ==
    {p \in [1..Cardinality(S) -> S] : \A i, j \in 1..Cardinality(S) : p[i] = p[j] => i = j}

RECURSIVE SelectSeq2(_, _)
SelectSeq2(seq, S) ==
    IF seq = <<>> THEN <<>>
    ELSE IF Head(seq) \in S THEN <<Head(seq)>> \o SelectSeq2(Tail(seq), S)
    ELSE SelectSeq2(Tail(seq), S)

\* ===== NODE ===============================================================
\* os.lstat(path) raises OSError
lstat_fails(n) == fs[n].kind = "broken"

\* a test that takes no entry for a symbolic link
is_link_Never(n) == FALSE

is_link(n) == fs[n].kind \in {"dirlink", "filelink"}

is_dir(n) == fs[n].kind = "dir"

is_file(n) == fs[n].kind = "file"

is_to_dir(n) == fs[n].kind \in {"dir", "dirlink"}

\* Node.lines: count_lines if is_text, else None
lines(n) == IF is_file(n) THEN fs[n].lines ELSE None

\* Node.size: self.lstat.st_size (the caller sees OSError when lstat fails)
size(n) == Some(fs[n].size)

\* compute_md5
compute_md5(n) ==
    IF fs[n].digest = EMPTY_FILE_MD5_ORIG THEN Some(EMPTY_FILE_MD5_HASH)
    ELSE Some(fs[n].digest)

\* Node.md5
md5(n) == IF is_file(n) THEN compute_md5(n) ELSE None

\* Node.__init__
Node(n, father) ==
    [father |-> father, children |-> IF is_dir(n) THEN {} ELSE None]

\* setattr of several attributes on a node object
setattrs(obj, new) == new @@ obj

\* getattr(node, attr, None) where obj holds the attributes assigned to the
\* node so far: an assigned attribute, a property, Node.__getattr__ for the
\* f-prefixed names, else AttributeError and so None
node_getattr(n, obj, attr) ==
    IF attr \in DOMAIN obj THEN obj[attr]
    ELSE IF attr = "lines" THEN lines(n)
    ELSE IF attr = "size" THEN size(n)
    ELSE IF attr = "flines"
    THEN IF is_file(n) \/ is_link(n) THEN lines(n) ELSE None
    ELSE IF attr = "fsize"
    THEN IF is_file(n) \/ is_link(n) THEN size(n) ELSE None
    ELSE None

\* ===== Predicate ==========================================================
\* a test of make: op(getattr(node, attr, None), val)
FieldTest(attr, op, v) == [attr |-> attr, op |-> op, val |-> Some(v)]

\* a wiring of "<" and "<=" to the comparisons that take None for smallest
oper_dict_Plain(op, a, b) ==
    IF op = "<" THEN lt(a, b)
    ELSE IF op = "<=" THEN le(a, b)
    ELSE IF op = ">" THEN gt(a, b)
    ELSE ge(a, b)

oper_dict(op, a, b) ==
    IF op = "<" THEN nn_lt(a, b)
    ELSE IF op = "<=" THEN nn_le(a, b)
    ELSE IF op = ">" THEN gt(a, b)
    ELSE ge(a, b)

\* Predicate.__call__: all(f(x) for f in self._pred)
Predicate_call(pred, n, obj) ==
    \A i \in DOMAIN pred :
        oper_dict(pred[i].op, node_getattr(n, obj, pred[i].attr), pred[i].val)

\* ----- a field filter of make applied to drawn nodes ----------------------
\* the operators of the filter expressions (the keys of oper_dict)
FilterOps == {"<", "<=", ">", ">="}

\* nodes carrying the filtered attributes, present or absent
FilterNodes == [flines : OptVals, fsize : OptVals]

FilterInit ==
    /\ alg = [op |-> "start", args |-> <<>>, out |-> None]
    /\ sel = <<>>
    /\ srt = <<>>
    /\ mem = <<>>
    /\ prd = <<>>
    /\ WalkIdle

\* lines 1462-1495: "attr op val" is parsed, val = int(val), and the test is
\* lambda node: op(getattr(node, attr, None), val)
Call_filter ==
    /\ alg.op = "start"
    /\ \E n \in FilterNodes, attr \in {"flines", "fsize"}, op \in FilterOps,
          v \in 0..MaxVal :
           alg' = [op |-> "filter", args |-> <<n, attr, op, v>>,
                   out |-> oper_dict(op, getattr(n, attr), Some(v))]
    /\ UNCHANGED <<sel, srt, mem, prd, walk>>

FilterNext ==
    \/ Call_filter

SpecFilter == FilterInit /\ [][FilterNext]_vars

\* ===== the arguments of Tree ==============================================
\* self.top_attr = "b" + self.top_mode.lstrip("f")
top_attr(mode) == IF mode = "flines" THEN "blines" ELSE "bsize"

\* what make hands to Tree: "flines>=FilterVal" as a pre-filter of files,
\* "rlines>=FilterVal" as a post-filter of directories, "flines@topK" or
\* "fsize@topK", the duplicate mode, and plain "lines" when none of the
\* modes is on; read_lines (line 837) is whether a shown field ends in
\* "lines"
Configs ==
    {c \in [access_level : {1, 2, INF_INT},
            always_show_dirs : BOOLEAN,
            fpred : {<<>>, <<FieldTest("flines", ">=", FilterVal)>>},
            dpred : {<<>>},
            dpost : {<<>>, <<FieldTest("rlines", ">=", FilterVal)>>},
            top_mode : {None, Some("flines"), Some("fsize")},
            top_count : 1..MaxK,
            dup_mode : BOOLEAN,
            dup_nonempty : BOOLEAN,
            read_lines : BOOLEAN] :
        /\ ~(present(c.top_mode) /\ c.dup_mode)
        /\ ~present(c.top_mode) => c.top_count = 1
        /\ c.dup_nonempty => c.dup_mode
        /\ c.read_lines = (\/ c.top_mode = Some("flines")
                           \/ c.fpred # <<>> \/ c.dpost # <<>>
                           \/ (~present(c.top_mode) /\ ~c.dup_mode))}

\* ===== TREE: the walk =====================================================
\* one call _gather(root, level): not yet listed ("enter"), or in its loops
\* over f_nodes and d_nodes ("body"); the head of d_nodes of a call that is
\* not innermost is the directory being gathered by the call above it
Frame(root, level) ==
    [root |-> root, level |-> level, pc |-> "enter",
     f_nodes |-> <<>>, d_nodes |-> <<>>]

\* Tree.__init__ up to the call of _gather(self.root, level=1) in _build,
\* for a root path that is a directory itself
WalkInit ==
    /\ alg = <<>>
    /\ sel = <<>>
    /\ srt = <<>>
    /\ mem = <<>>
    /\ prd = <<>>
    /\ cfg \in Configs
    /\ fs \in FileSystems
    /\ node = [n \in {Root} |-> Node(Root, None)]
    /\ stack = <<Frame(Root, 1)>>
    /\ top_heap = <<>>
    /\ dup_map = <<>>
    /\ dup_set = {}
    /\ save_set = {Root}
    /\ show_set = {}
    /\ level_reached = 0
    /\ status = "walk"

\* lines 880-891: the aggregates of root start from its own stat values
gather_start(root) ==
    LET obj == setattrs(node[root],
                   [fcount |-> 0, dcount |-> 0, blines |-> None, rlines |-> None,
                    bsize |-> size(root), rsize |-> size(root),
                    batime |-> Some(fs[root].atime), bbtime |-> Some(fs[root].btime),
                    bctime |-> Some(fs[root].ctime), bmtime |-> Some(fs[root].mtime)])
    IN  IF present(cfg.top_mode)
        THEN setattrs(obj, [top_val |->
                 node_getattr(root, obj, top_attr(val(cfg.top_mode)))])
        ELSE obj

\* lines 874-896 when os.listdir raises OSError: warn and return
GatherListFails ==
    /\ status = "walk"
    /\ stack # <<>>
    /\ Head(stack).pc = "enter"
    /\ LET fr == Head(stack)
       IN  /\ level_reached' = IF fr.level > level_reached THEN fr.level
                               ELSE level_reached
           /\ node' = [node EXCEPT ![fr.root] = gather_start(fr.root)]
           /\ stack' = <<[fr EXCEPT !.pc = "body"]>> \o Tail(stack)
    /\ UNCHANGED <<alg, sel, srt, mem, prd, cfg, fs, top_heap, dup_map, dup_set,
                   save_set, show_set, status>>

\* lines 874-905: the entries are listed in some order, a Node is made for
\* each and the nodes are classified with the pre-filters
GatherList ==
    /\ status = "walk"
    /\ stack # <<>>
    /\ Head(stack).pc = "enter"
    /\ LET fr == Head(stack)
           root == fr.root
       IN  /\ level_reached' = IF fr.level > level_reached THEN fr.level
                               ELSE level_reached
           /\ \E all_nodes \in Perms(Entries(root)) :
                LET made == [n \in Entries(root) |-> Node(n, Some(root))]
                    f_set == {n \in Entries(root) :
                                ~is_to_dir(n) /\ Predicate_call(cfg.fpred, n, made[n])}
                    d_set == {n \in Entries(root) :
                                is_to_dir(n) /\ Predicate_call(cfg.dpred, n, made[n])}
                IN  /\ node' = made @@ [node EXCEPT ![root] = gather_start(root)]
                    /\ stack' = <<[fr EXCEPT !.pc = "body",
                                            !.f_nodes = SelectSeq2(all_nodes, f_set),
                                            !.d_nodes = SelectSeq2(all_nodes, d_set)]>>
                                 \o Tail(stack)
    /\ UNCHANGED <<alg, sel, srt, mem, prd, cfg, fs, top_heap, dup_map, dup_set,
                   save_set, show_set, status>>

\* a recording that does not look at the nonempty-duplicates option
dup_record_KeepsEmpty(map, f) ==
    LET checksum == md5(f)
    IN  IF present(checksum) /\ checksum \in DOMAIN map
        THEN [map EXCEPT ![checksum] = Append(@, f)]
        ELSE (checksum :> <<f>>) @@ map

\* lines 924-931: the file recorded under its checksum
dup_record(map, f) ==
    LET checksum == md5(f)
    IN  IF checksum # Some(EMPTY_FILE_MD5_HASH) \/ ~cfg.dup_nonempty
        THEN IF present(checksum) /\ checksum \in DOMAIN map
             THEN [map EXCEPT ![checksum] = Append(@, f)]
             ELSE (checksum :> <<f>>) @@ map
        ELSE map

\* a marking that does not wait for the second file of a hash
dup_mark_First(map, set, f) ==
    LET checksum == md5(f)
    IN  IF (checksum # Some(EMPTY_FILE_MD5_HASH) \/ ~cfg.dup_nonempty)
           /\ present(checksum)
        THEN set \cup {val(checksum)}
        ELSE set

\* lines 927-929: the checksum marked when it is already a key of dup_map
dup_mark(map, set, f) ==
    LET checksum == md5(f)
    IN  IF (checksum # Some(EMPTY_FILE_MD5_HASH) \/ ~cfg.dup_nonempty)
           /\ present(checksum) /\ checksum \in DOMAIN map
        THEN set \cup {val(checksum)}
        ELSE set

\* a roll-up of lines that counts an absent line count as 0
file_linked_Zero(obj, f) ==
    LET o == [obj EXCEPT !.children = @ \cup {f}, !.fcount = @ + 1]
    IN  IF cfg.read_lines
        THEN [o EXCEPT !.blines = max_of(lines(f), @),
                       !.rlines = Some((IF present(@) THEN val(@) ELSE 0) +
                                       (IF present(lines(f)) THEN val(lines(f)) ELSE 0))]
        ELSE o

\* lines 913-917: f linked into root and counted, its lines rolled up
file_linked(obj, f) ==
    LET o == [obj EXCEPT !.children = @ \cup {f}, !.fcount = @ + 1]
    IN  IF cfg.read_lines
        THEN [o EXCEPT !.blines = max_of(lines(f), @), !.rlines = add(@, lines(f))]
        ELSE o

\* a roll-up that forgets to add the size of f to the total
file_stats_NoTotal(obj, f) ==
    [obj EXCEPT !.bsize = max_of(size(f), @),
                !.batime = max_of(Some(fs[f].atime), @),
                !.bbtime = max_of(Some(fs[f].btime), @),
                !.bctime = max_of(Some(fs[f].ctime), @),
                !.bmtime = max_of(Some(fs[f].mtime), @)]

\* lines 918-923: the stat values of f rolled up
file_stats(obj, f) ==
    [obj EXCEPT !.bsize = max_of(size(f), @),
                !.rsize = Some(val(@) + val(size(f))),
                !.batime = max_of(Some(fs[f].atime), @),
                !.bbtime = max_of(Some(fs[f].btime), @),
                !.bctime = max_of(Some(fs[f].ctime), @),
                !.bmtime = max_of(Some(fs[f].mtime), @)]

\* lines 906-931: one turn of the loop over f_nodes
GatherFile ==
    /\ status = "walk"
    /\ stack # <<>>
    /\ Head(stack).pc = "body"
    /\ Head(stack).f_nodes # <<>>
    /\ LET fr == Head(stack)
           root == fr.root
           f == Head(fr.f_nodes)
           value == IF present(cfg.top_mode)
                    THEN node_getattr(f, node[f], val(cfg.top_mode)) ELSE None
           skipped == present(cfg.top_mode)
                      /\ le(value, next_to_pop(top_heap, cfg.top_count))
           heap == IF present(cfg.top_mode)
                   THEN push(top_heap, cfg.top_count, value, f) ELSE top_heap
           obj1 == IF present(cfg.top_mode)
                   THEN [node[root] EXCEPT !.top_val = max_of(value, @)]
                   ELSE node[root]
           obj2 == file_linked(obj1, f)
       IN  /\ stack' = <<[fr EXCEPT !.f_nodes = Tail(@)]>> \o Tail(stack)
           /\ IF skipped
              THEN UNCHANGED <<node, top_heap, dup_map, dup_set, status>>
              ELSE IF ~is_dir(root)
              THEN \* root.children is None (Node.__init__): line 913 raises
                   /\ node' = [node EXCEPT ![root] = obj1]
                   /\ top_heap' = heap
                   /\ status' = "AttributeError"
                   /\ UNCHANGED <<dup_map, dup_set>>
              ELSE IF lstat_fails(f)
              THEN \* f.size raises OSError, which nothing catches
                   /\ node' = [node EXCEPT ![root] = obj2]
                   /\ top_heap' = heap
                   /\ status' = "OSError"
                   /\ UNCHANGED <<dup_map, dup_set>>
              ELSE /\ node' = [node EXCEPT ![root] = file_stats(obj2, f)]
                   /\ top_heap' = heap
                   /\ dup_map' = IF cfg.dup_mode THEN dup_record(dup_map, f) ELSE dup_map
                   /\ dup_set' = IF cfg.dup_mode THEN dup_mark(dup_map, dup_set, f)
                                 ELSE dup_set
                   /\ UNCHANGED status
    /\ UNCHANGED <<alg, sel, srt, mem, prd, cfg, fs, save_set, show_set, level_reached>>

\* a roll-up that leaves the linked directory itself out of the count
dir_linked_NoSelf(obj, d, dobj) ==
    LET o1 == [obj EXCEPT !.children = @ \cup {d},
                          !.fcount = @ + dobj.fcount,
                          !.dcount = @ + dobj.dcount]
        o2 == IF present(dobj.rlines)
              THEN [o1 EXCEPT !.blines = max_of(dobj.blines, @),
                              !.rlines = add(@, dobj.rlines)]
              ELSE o1
    IN  [o2 EXCEPT !.bsize = max_of(dobj.bsize, @),
                   !.rsize = Some(val(@) + val(dobj.rsize)),
                   !.bmtime = max_of(dobj.bmtime, @),
                   !.batime = max_of(dobj.batime, @),
                   !.bctime = max_of(dobj.bctime, @),
                   !.bbtime = max_of(dobj.bbtime, @)]

\* lines 961-972: d linked into root, its counts and aggregates rolled up
dir_linked(obj, d, dobj) ==
    LET o1 == [obj EXCEPT !.children = @ \cup {d},
                          !.fcount = @ + dobj.fcount,
                          !.dcount = @ + dobj.dcount + 1]
        o2 == IF present(dobj.rlines)
              THEN [o1 EXCEPT !.blines = max_of(dobj.blines, @),
                              !.rlines = add(@, dobj.rlines)]
              ELSE o1
    IN  [o2 EXCEPT !.bsize = max_of(dobj.bsize, @),
                   !.rsize = Some(val(@) + val(dobj.rsize)),
                   !.bmtime = max_of(dobj.bmtime, @),
                   !.batime = max_of(dobj.batime, @),
                   !.bctime = max_of(dobj.bctime, @),
                   !.bbtime = max_of(dobj.bbtime, @)]

\* Node.__init__, lines 459-462: the children of a node are a set when the
\* node is a directory itself and None otherwise; root.children.add of lines
\* 913, 935 and 961 then raises AttributeError
has_children(father) == is_dir(val(father))

\* a pruning that keeps the directories that hold nothing
after_dir_KeepsEmpty(obj, d, dobj) ==
    IF ~Predicate_call(cfg.dpost, d, dobj)
    THEN [obj |-> obj, raised |-> FALSE]
    ELSE IF ~present(cfg.top_mode)
    THEN IF has_children(dobj.father)
         THEN [obj |-> dir_linked(obj, d, dobj), raised |-> FALSE]
         ELSE [obj |-> obj, raised |-> TRUE]
    ELSE IF "top_val" \notin DOMAIN dobj
    THEN [obj |-> obj, raised |-> TRUE]
    ELSE IF lt(dobj.top_val, next_to_pop(top_heap, cfg.top_count))
    THEN [obj |-> obj, raised |-> FALSE]
    ELSE IF has_children(dobj.father)
    THEN [obj |-> dir_linked([obj EXCEPT !.top_val = max_of(dobj.top_val, @)],
                             d, dobj),
          raised |-> FALSE]
    ELSE [obj |-> [obj EXCEPT !.top_val = max_of(dobj.top_val, @)], raised |-> TRUE]

\* lines 953-972 for the directory d, gathered or truncated: root as it is
\* afterwards, and whether reading d.top_val or linking d raised
\* AttributeError
after_dir(obj, d, dobj) ==
    IF ~Predicate_call(cfg.dpost, d, dobj)
    THEN [obj |-> obj, raised |-> FALSE]
    ELSE IF ~cfg.always_show_dirs /\ dobj.fcount = 0 /\ dobj.dcount = 0
    THEN [obj |-> obj, raised |-> FALSE]
    ELSE IF ~present(cfg.top_mode)
    THEN IF has_children(dobj.father)
         THEN [obj |-> dir_linked(obj, d, dobj), raised |-> FALSE]
         ELSE [obj |-> obj, raised |-> TRUE]
    ELSE IF "top_val" \notin DOMAIN dobj
    THEN [obj |-> obj, raised |-> TRUE]
    ELSE IF lt(dobj.top_val, next_to_pop(top_heap, cfg.top_count))
    THEN [obj |-> obj, raised |-> FALSE]
    ELSE IF has_children(dobj.father)
    THEN [obj |-> dir_linked([obj EXCEPT !.top_val = max_of(dobj.top_val, @)],
                             d, dobj),
          raised |-> FALSE]
    ELSE [obj |-> [obj EXCEPT !.top_val = max_of(dobj.top_val, @)], raised |-> TRUE]

\* the innermost call is in its loop over d_nodes, at the directory d
AtDir(d) ==
    /\ status = "walk"
    /\ stack # <<>>
    /\ Head(stack).pc = "body"
    /\ Head(stack).f_nodes = <<>>
    /\ Head(stack).d_nodes # <<>>
    /\ d = Head(Head(stack).d_nodes)

\* lines 933-937: a symbolic link to a directory is linked when directories
\* are always shown, and never gathered
GatherDirLink ==
    /\ \E d \in NodeIds :
         /\ AtDir(d)
         /\ is_link(d)
         /\ LET fr == Head(stack)
            IN  /\ stack' = <<[fr EXCEPT !.d_nodes = Tail(@)]>> \o Tail(stack)
                /\ IF ~cfg.always_show_dirs
                   THEN UNCHANGED <<node, status>>
                   ELSE IF ~is_dir(fr.root)
                   THEN \* root.children is None: line 935 raises
                        /\ status' = "AttributeError"
                        /\ UNCHANGED node
                   ELSE /\ node' = [node EXCEPT ![fr.root].children = @ \cup {d},
                                                ![fr.root].dcount = @ + 1]
                        /\ UNCHANGED status
    /\ UNCHANGED <<alg, sel, srt, mem, prd, cfg, fs, top_heap, dup_map, dup_set,
                   save_set, show_set, level_reached>>

\* a test that lets the walk list one level more
may_descend_OneMore(level) == level <= cfg.access_level

\* line 939: level < self.access_level
may_descend(level) == level < cfg.access_level

\* lines 939-940: the recursive call _gather(d, level + 1)
GatherDescend ==
    /\ \E d \in NodeIds :
         /\ AtDir(d)
         /\ ~is_link(d)
         /\ may_descend(Head(stack).level)
         /\ stack' = <<Frame(d, Head(stack).level + 1)>> \o stack
    /\ UNCHANGED <<alg, sel, srt, mem, prd, cfg, fs, node, top_heap, dup_map, dup_set,
                   save_set, show_set, level_reached, status>>

\* what lines 953-972 leave: root updated, or the run ended by the exception
Finish(fr, d, dobj, nodes) ==
    LET res == after_dir(nodes[fr.root], d, dobj)
    IN  /\ node' = [nodes EXCEPT ![fr.root] = res.obj]
        /\ status' = IF res.raised THEN "AttributeError" ELSE status

\* lines 941-972: at the access level d is not gathered; it is marked and
\* given its own stat values, then filtered and linked like a gathered one
GatherTruncate ==
    /\ \E d \in NodeIds :
         /\ AtDir(d)
         /\ ~is_link(d)
         /\ ~may_descend(Head(stack).level)
         /\ LET fr == Head(stack)
                dobj == setattrs(node[d],
                            [ignore |-> TRUE, fcount |-> 0, dcount |-> 0,
                             blines |-> None, rlines |-> None,
                             bsize |-> size(d), rsize |-> size(d),
                             batime |-> Some(fs[d].atime),
                             bbtime |-> Some(fs[d].btime),
                             bctime |-> Some(fs[d].ctime),
                             bmtime |-> Some(fs[d].mtime)])
            IN  /\ stack' = <<[fr EXCEPT !.d_nodes = Tail(@)]>> \o Tail(stack)
                /\ Finish(fr, d, dobj, [node EXCEPT ![d] = dobj])
    /\ UNCHANGED <<alg, sel, srt, mem, prd, cfg, fs, top_heap, dup_map, dup_set,
                   save_set, show_set, level_reached>>

\* a call has run through both of its loops (or returned early)
Returning(fr) == fr.pc = "body" /\ fr.f_nodes = <<>> /\ fr.d_nodes = <<>>

\* _gather(d, level + 1) returns and the caller runs lines 953-972 for d
GatherReturn ==
    /\ status = "walk"
    /\ Len(stack) > 1
    /\ Returning(Head(stack))
    /\ LET d == Head(stack).root
           fr == stack[2]
       IN  /\ stack' = <<[fr EXCEPT !.d_nodes = Tail(@)]>> \o Tail(Tail(stack))
           /\ Finish(fr, d, node[d], node)
    /\ UNCHANGED <<alg, sel, srt, mem, prd, cfg, fs, top_heap, dup_map, dup_set,
                   save_set, show_set, level_reached>>

\* a saving that goes up one link only
save_father_OneStep(set, n) == set \cup {val(node[n].father)}

\* Tree._save_father
RECURSIVE save_father(_, _)
save_father(set, n) ==
    LET father == val(node[n].father)
    IN  IF father \in set THEN set
        ELSE save_father(set \cup {father}, father)

\* for each selected node in turn: self._save_father(node)
RECURSIVE save_fathers(_, _)
save_fathers(set, selected) ==
    IF selected = <<>> THEN set
    ELSE save_fathers(save_father(set, Head(selected)), Tail(selected))

\* sorted(list(self.dup_set))
RECURSIVE sorted(_)
sorted(S) ==
    IF S = {} THEN <<>>
    ELSE LET m == CHOOSE x \in S : \A y \in S : x <= y
         IN  <<m>> \o sorted(S \ {m})

RECURSIVE dup_nodes(_)
dup_nodes(checksums) ==
    IF checksums = <<>> THEN <<>>
    ELSE dup_map[Some(Head(checksums))] \o dup_nodes(Tail(checksums))

\* the nodes _build selects, in the order it meets them
Selected ==
    IF present(cfg.top_mode) THEN [i \in DOMAIN top_heap |-> top_heap[i].which]
    ELSE IF cfg.dup_mode THEN dup_nodes(sorted(dup_set))
    ELSE <<>>

\* lines 843-857: _gather(self.root, 1) has returned; the selected nodes are
\* put in show_set and their ancestors in save_set
Build ==
    /\ status = "walk"
    /\ Len(stack) = 1
    /\ Returning(Head(stack))
    /\ stack' = <<>>
    /\ show_set' = show_set \cup Range(Selected)
    /\ save_set' = save_fathers(save_set, Selected)
    /\ status' = "built"
    /\ UNCHANGED <<alg, sel, srt, mem, prd, cfg, fs, node, top_heap, dup_map, dup_set,
                   level_reached>>

Next ==
    \/ GatherList
    \/ GatherListFails
    \/ GatherFile
    \/ GatherDirLink
    \/ GatherDescend
    \/ GatherTruncate
    \/ GatherReturn
    \/ Build

Spec == WalkInit /\ [][Next]_vars

\* ===== TREE: a root path that may be a symbolic link ======================
\* lines 737-741: the root path has to be a directory as os.path.isdir sees
\* it, which follows links, and is resolved only under --real-path: the
\* root Node is either a directory or a symbolic link to one, whose listing
\* is the listing of its target
RootSystems ==
    {[n \in NodeIds |->
        IF n = Root THEN xr ELSE IF n = "a" THEN xa ELSE IF n = "b" THEN xb
        ELSE IF n = "c" THEN xc ELSE IF n = "t" THEN xt ELSE Dir(n)] :
        xr \in {Dir(Root), DirLink(Root)},
        xa \in Files("a"),
        xb \in {Stat("b", "file", Some(1), 1, 1), DirLink("b")},
        xc \in {Stat("c", "file", Some(MaxLines), MaxLines, MaxLines), Absent("c")},
        xt \in {Dir("t"), Absent("t")}}

\* Tree.__init__ up to the call of _gather(self.root, level=1) in _build,
\* for a root path that is a directory or a symbolic link to one
RootInit ==
    /\ alg = <<>>
    /\ sel = <<>>
    /\ srt = <<>>
    /\ mem = <<>>
    /\ prd = <<>>
    /\ cfg \in Configs
    /\ fs \in RootSystems
    /\ node = [n \in {Root} |-> Node(Root, None)]
    /\ stack = <<Frame(Root, 1)>>
    /\ top_heap = <<>>
    /\ dup_map = <<>>
    /\ dup_set = {}
    /\ save_set = {Root}
    /\ show_set = {}
    /\ level_reached = 0
    /\ status = "walk"

SpecRoot == RootInit /\ [][Next]_vars

\* ===== TREE: the display ==================================================
\* -l NUM (line 1276): the default, no limit on the levels shown; the
\* defaults of -f and -d put no limit on the files and directories shown
max_level == INF_INT

\* a display that goes by membership of the tree alone
shown_files_Linked(n) == {x \in node[n].children : ~is_to_dir(x)}

\* lines 993-999: the file children _print_node keeps
shown_files(n) ==
    {x \in node[n].children :
        /\ ~is_to_dir(x)
        /\ ~(present(cfg.top_mode) \/ cfg.dup_mode) \/ x \in show_set}

\* lines 993-996: the directory children _print_node keeps
shown_dirs(n) ==
    {x \in node[n].children :
        /\ is_to_dir(x)
        /\ ~(present(cfg.top_mode) \/ cfg.dup_mode) \/ x \in save_set}

\* Tree._print_node(node, levels): the nodes it prints a line for, levels
\* being len(levels)
RECURSIVE print_node(_, _)
print_node(n, levels) ==
    LET n_show == shown_files(n) \cup shown_dirs(n)
    IN  n_show \cup
        UNION {print_node(x, levels + 1) :
                  x \in {y \in n_show : is_dir(y) /\ levels + 1 < max_level}}

\* Tree.print, lines 978-979: the line of the root, then _print_node(root)
print_lines == {Root} \cup print_node(Root, 0)

\* ===== NODE: the cached properties ========================================
\* what the path of the node is on disk at the moment: nothing, a regular
\* file, a directory or a symbolic link
Disk == {"gone", "file", "dir", "link"}

\* the properties of Node that are read here
CachedAttrs == {"lstat", "is_link", "is_dir", "is_file", "size"}

\* the outcome of a read: an exception, or the value returned
OSError == <<"OSError">>

raised(out) == out = OSError

bool(b) == IF b THEN <<"True">> ELSE <<"False">>

\* os.lstat(path)
os_lstat(disk) == IF disk = "gone" THEN OSError ELSE <<"stat_result", disk>>

\* the mode tests and fields of a stat result
S_ISLNK(st) == st[2] = "link"

S_ISDIR(st) == st[2] = "dir"

S_ISREG(st) == st[2] = "file"

st_size(st) == <<"st_size", st[2]>>

\* one more run of the body of the property attr
ran(computed, attr) == [computed EXCEPT ![attr] = @ + 1]

\* cached(func)(self): the cached value when the node has the attribute
\* "_" + name, else the value of func(self), stored only when func returns;
\* here for func = Node.lstat, whose body is os.lstat(self.path)
read_lstat(cache, computed, disk) ==
    IF "lstat" \in DOMAIN cache
    THEN [out |-> cache["lstat"], cache |-> cache, computed |-> computed]
    ELSE LET value == os_lstat(disk)
         IN  [out |-> value,
              cache |-> IF raised(value) THEN cache ELSE ("lstat" :> value) @@ cache,
              computed |-> ran(computed, "lstat")]

\* the bodies of Node.is_link, is_dir, is_file (OSError caught, False
\* returned) and of Node.size (OSError not caught)
func(attr, cache, computed, disk) ==
    LET st == read_lstat(cache, ran(computed, attr), disk)
    IN  IF attr = "size"
        THEN IF raised(st.out) THEN st ELSE [st EXCEPT !.out = st_size(st.out)]
        ELSE IF raised(st.out) THEN [st EXCEPT !.out = bool(FALSE)]
        ELSE IF attr = "is_link" THEN [st EXCEPT !.out = bool(S_ISLNK(st.out))]
        ELSE IF attr = "is_dir" THEN [st EXCEPT !.out = bool(S_ISDIR(st.out))]
        ELSE [st EXCEPT !.out = bool(S_ISREG(st.out))]

\* cached(func)(self) for every property read here
cached(attr, cache, computed, disk) ==
    IF attr = "lstat" THEN read_lstat(cache, computed, disk)
    ELSE IF attr \in DOMAIN cache
    THEN [out |-> cache[attr], cache |-> cache, computed |-> computed]
    ELSE LET res == func(attr, cache, computed, disk)
         IN  IF raised(res.out) THEN res
             ELSE [res EXCEPT !.cache = (attr :> res.out) @@ res.cache]

\* a Node just made, none of its properties read
CacheInit ==
    /\ \E disk \in Disk :
           mem = [disk |-> disk, cache |-> <<>>, reads |-> 0,
                  computed |-> [attr \in CachedAttrs |-> 0],
                  first |-> <<>>, last |-> <<>>]
    /\ alg = <<>>
    /\ sel = <<>>
    /\ srt = <<>>
    /\ prd = <<>>
    /\ WalkIdle

\* one read of a property of the node; first and last keep the outcome of
\* the first and of the latest read of each property
Read ==
    /\ mem # <<>>
    /\ mem.reads < MaxReads
    /\ \E attr \in CachedAttrs :
         LET res == cached(attr, mem.cache, mem.computed, mem.disk)
         IN  mem' = [mem EXCEPT !.cache = res.cache,
                                !.computed = res.computed,
                                !.reads = @ + 1,
                                !.first = IF attr \in DOMAIN mem.first THEN @
                                          ELSE (attr :> res.out) @@ @,
                                !.last = (attr :> res.out) @@ @]
    /\ UNCHANGED <<alg, sel, srt, prd, walk>>

\* the file system changes between two reads
Change ==
    /\ mem # <<>>
    /\ \E disk \in Disk \ {mem.disk} : mem' = [mem EXCEPT !.disk = disk]
    /\ UNCHANGED <<alg, sel, srt, prd, walk>>

CacheNext ==
    \/ Read
    \/ Change

SpecCache == CacheInit /\ [][CacheNext]_vars

\* ===== Predicate, Pattern, Ignore =========================================
\* a test handed to Pattern or Ignore: "the value of x is at least v"
Tests == 0..MaxVal

test(v, x) == x >= v

RECURSIVE TestSeqs(_)
TestSeqs(n) ==
    IF n = 0 THEN {<<>>}
    ELSE LET shorter == TestSeqs(n - 1)
         IN  shorter \cup
             {Append(s, v) : s \in {t \in shorter : Len(t) = n - 1}, v \in Tests}

\* Pattern.__init__: self._pred = list(preds)
Pattern(preds) == [i \in DOMAIN preds |-> [negated |-> FALSE, p |-> preds[i]]]

\* Ignore.__init__: self._pred = [lambda x: not p(x) for p in preds]; each
\* lambda reads p when it is called, after the comprehension has ended, and
\* p is then the last of preds
Ignore(preds) ==
    [i \in DOMAIN preds |-> [negated |-> TRUE, p |-> preds[Len(preds)]]]

\* Predicate.__iadd__: self._pred.extend(other._pred)
iadd(self, other) == self \o other

\* Predicate.__call__: all(f(x) for f in self._pred)
Predicate_accepts(self, x) ==
    \A i \in DOMAIN self :
        IF self[i].negated THEN ~test(self[i].p, x) ELSE test(self[i].p, x)

\* Pattern(), as make starts fpred, dpred and dpost
PredInit ==
    /\ prd = [op |-> "new", parts |-> <<>>, pred |-> Pattern(<<>>),
              x |-> 0, out |-> TRUE]
    /\ alg = <<>>
    /\ sel = <<>>
    /\ srt = <<>>
    /\ mem = <<>>
    /\ WalkIdle

\* pred += Pattern(*preds)
AddPattern ==
    /\ prd # <<>>
    /\ prd.op \in {"new", "iadd"}
    /\ Len(prd.parts) < MaxParts
    /\ \E preds \in TestSeqs(MaxTests) :
           prd' = [prd EXCEPT !.op = "iadd",
                              !.parts = Append(@, [kind |-> "Pattern", preds |-> preds]),
                              !.pred = iadd(@, Pattern(preds))]
    /\ UNCHANGED <<alg, sel, srt, mem, walk>>

\* pred += Ignore(*preds)
AddIgnore ==
    /\ prd # <<>>
    /\ prd.op \in {"new", "iadd"}
    /\ Len(prd.parts) < MaxParts
    /\ \E preds \in TestSeqs(MaxTests) :
           prd' = [prd EXCEPT !.op = "iadd",
                              !.parts = Append(@, [kind |-> "Ignore", preds |-> preds]),
                              !.pred = iadd(@, Ignore(preds))]
    /\ UNCHANGED <<alg, sel, srt, mem, walk>>

\* pred(x)
CallPredicate ==
    /\ prd # <<>>
    /\ prd.op \in {"new", "iadd"}
    /\ \E x \in 0..MaxVal :
           prd' = [prd EXCEPT !.op = "call", !.x = x,
                              !.out = Predicate_accepts(prd.pred, x)]
    /\ UNCHANGED <<alg, sel, srt, mem, walk>>

PredNext ==
    \/ AddPattern
    \/ AddIgnore
    \/ CallPredicate

SpecPred == PredInit /\ [][PredNext]_vars

\* ===== TREE: the display sets of _build ===================================
\* father links as a walk of any directory tree leaves them: every node but
\* the root has a father and the links lead up to the root
RECURSIVE LeadsToRoot(_, _, _)
LeadsToRoot(up, n, steps) ==
    IF n = Root THEN TRUE
    ELSE IF steps = 0 THEN FALSE
    ELSE LeadsToRoot(up, up[n], steps - 1)

FatherLinks ==
    {up \in [NodeIds \ {Root} -> NodeIds] :
        \A n \in NodeIds \ {Root} : LeadsToRoot(up, n, Cardinality(NodeIds))}

\* the Node objects of such a tree: the nodes that are some node's father
\* are directories, the others files
Nodes(up) ==
    [n \in NodeIds |->
        LET kids == {x \in NodeIds \ {Root} : up[x] = n}
        IN  [father |-> IF n = Root THEN None ELSE Some(up[n]),
             children |-> IF kids = {} /\ n # Root THEN None ELSE kids]]

\* Tree.__init__, lines 768-769, with the tree _gather has left
SaveInit ==
    /\ alg = <<>>
    /\ sel = <<>>
    /\ srt = <<>>
    /\ mem = <<>>
    /\ prd = <<>>
    /\ cfg = <<>>
    /\ fs = <<>>
    /\ \E up \in FatherLinks : node = Nodes(up)
    /\ stack = <<>>
    /\ top_heap = <<>>
    /\ dup_map = <<>>
    /\ dup_set = {}
    /\ save_set = {Root}
    /\ show_set = {}
    /\ level_reached = 0
    /\ status = "idle"

\* n is the father of some node
IsFather(n) == \E x \in DOMAIN node : node[x].father = Some(n)

\* lines 846-848 and 855-857: one turn of the loop over the selected nodes,
\* which are files
SaveSelected ==
    /\ \E n \in NodeIds \ show_set :
         /\ ~IsFather(n) /\ n # Root
         /\ show_set' = show_set \cup {n}
         /\ save_set' = save_father(save_set, n)
    /\ UNCHANGED <<alg, sel, srt, mem, prd, cfg, fs, node, stack, top_heap, dup_map,
                   dup_set, level_reached, status>>

SaveNext ==
    \/ SaveSelected

SpecSave == SaveInit /\ [][SaveNext]_vars

\* ----- C1 -----------------------------------------------------------------
Distinct(s) == \A i \in DOMAIN s, j \in DOMAIN s : i # j => s[i] # s[j]

\* the k largest members of a set of integers
Largest(S, k) == {v \in S : Cardinality({w \in S : w > v}) < k}

HeldValues == {val(sel.list[i].value) : i \in DOMAIN sel.list}

\* C1: after N >= K pairwise-distinct present values have been offered, the
\* selector holds exactly K entries and their values are the K largest
\* values of the stream.
C1_TopKCorrect ==
    (Len(sel.offered) >= sel.capacity /\ Distinct(sel.offered)) =>
        /\ Len(sel.list) = sel.capacity
        /\ HeldValues = Largest(Range(sel.offered), sel.capacity)

\* a full stream of distinct values, longer than K, in which the last value
\* evicted an entry and an earlier one was rejected: the held values are
\* not merely the first K offered
C1_Witness ==
    /\ Len(sel.offered) = MaxOffers
    /\ sel.capacity = MaxK
    /\ Distinct(sel.offered)
    /\ sel.last = "pushed"
    /\ \E i \in 1..MaxK : sel.offered[i] \notin HeldValues
    /\ \E i \in (MaxK + 1)..(MaxOffers - 1) : sel.offered[i] \notin HeldValues
    /\ C1_TopKCorrect

\* ----- the walked tree, for stating the claims ----------------------------
\* the level argument with which _gather reaches a node's directory: the
\* root is level 1
Level(n) == IF n = Root THEN 1 ELSE IF n \in Place(Root) THEN 2 ELSE 3

\* the entries below a directory, at any depth
Below(d) == Place(d) \cup UNION {Place(x) : x \in Place(d)}

\* the directories _gather was called on, or truncated
Visited == {d \in DOMAIN node : "fcount" \in DOMAIN node[d]}

RECURSIVE SumSize(_)
SumSize(S) ==
    IF S = {} THEN 0
    ELSE LET x == CHOOSE y \in S : TRUE IN fs[x].size + SumSize(S \ {x})

MaxSize(S) == CHOOSE m \in {fs[x].size : x \in S} : \A x \in S : fs[x].size <= m

RECURSIVE SumLines(_)
SumLines(S) ==
    IF S = {} THEN 0
    ELSE LET x == CHOOSE y \in S : TRUE
         IN  (IF present(lines(x)) THEN val(lines(x)) ELSE 0) + SumLines(S \ {x})

\* the nodes the selector holds
Members == {top_heap[i].which : i \in DOMAIN top_heap}

\* ----- C2 -----------------------------------------------------------------
FileChildrenOnly(d) ==
    node[d].children # {} /\ \A c \in node[d].children : ~is_to_dir(c)

C3_OnlyMembersContribute ==
    (status = "built" /\ present(cfg.top_mode)) =>
        /\ \A d \in Visited :
               /\ node[d].fcount <= Cardinality(Members \cap Below(d))
               /\ le(node[d].rlines, Some(SumLines(Members \cap Below(d))))
        /\ (/\ fs = Scenario
            /\ cfg.top_mode = Some("flines")
            /\ cfg.top_count = 1
            /\ cfg.fpred = <<>>
            /\ "b" \in DOMAIN node) =>
               /\ Members = {"b"}
               /\ node[Root].fcount = 1
               /\ node[Root].rlines = Some(20)

\* ----- C4 -----------------------------------------------------------------
\* n is reached from the root by children links through directories of
\* save_set
RECURSIVE Connected(_)
Connected(n) ==
    \/ n = Root
    \/ LET father == val(node[n].father)
       IN  /\ n \in node[father].children
           /\ father \in save_set
           /\ Connected(father)

\* C4: after the walk in top mode or duplicate mode every selected node is
\* reachable from the root by children links and every directory on the
\* path is in save_set, for every combination of filters and depth limit.
C4_SelectedConnected ==
    status = "built" => \A n \in show_set : Connected(n)

\* ----- C5 -----------------------------------------------------------------
\* C5: a stat that fails during the walk is a soft failure: no exception
\* ends the walk.
C5_StatFailureIsSoft == status # "OSError"

\* ----- C6 -----------------------------------------------------------------
\* C6: the walk runs to completion; in particular every directory tested
\* against the admission threshold has a top_val, a truncated one too, so
\* the test never raises.
C6_ThresholdTestDefined == status # "AttributeError"

\* ----- C7 -----------------------------------------------------------------
Truncated(d) == "ignore" \in DOMAIN node[d] /\ node[d].ignore

OwnStatsOnly(d) ==
    /\ node[d].children = {}
    /\ Place(d) \cap DOMAIN node = {}
    /\ node[d].fcount = 0
    /\ node[d].dcount = 0
    /\ node[d].bsize = size(d)
    /\ node[d].rsize = size(d)
    /\ node[d].batime = Some(fs[d].atime)
    /\ node[d].bbtime = Some(fs[d].btime)
    /\ node[d].bctime = Some(fs[d].ctime)
    /\ node[d].bmtime = Some(fs[d].mtime)

\* C7 as claimed: counting the root as level 1, a directory visited at level
\* exactly L = access_level is not listed: it is marked truncated, has no
\* children and zero counts, and its aggregates are its own stat values.
C7_TruncatedAtLevelL ==
    \A d \in Visited :
        Level(d) = cfg.access_level => Truncated(d) /\ OwnStatsOnly(d)

\* C7 as amended: the truncated directories are those at level L + 1, the
\* subdirectories of the directories listed at level L: such a directory is
\* marked truncated, its contents are not listed, it has no children and
\* zero counts and its aggregates are its own stat values; no directory at
\* a level up to L is truncated.
C7_TruncatedBelowLevelL ==
    \A d \in Visited :
        /\ Truncated(d) <=> Level(d) > cfg.access_level
        /\ Truncated(d) => Level(d) = cfg.access_level + 1 /\ OwnStatsOnly(d)

\* with access level 2 the directory s at level 2 was listed and has a
\* child, and t at level 3, which holds nothing the walk could see, is
\* truncated
C7_Witness ==
    /\ status = "built"
    /\ cfg.access_level = 2
    /\ "t" \in Visited
    /\ Truncated("t")
    /\ "c" \in node["s"].children
    /\ ~Truncated("s")
    /\ C7_TruncatedBelowLevelL

\* ----- C8 -----------------------------------------------------------------
\* C8: min_of absorbs absence: for every present x, min_of(None, x) = x and
\* min_of(x, None) = x, and min_of(None, None) is None.
C8_MinOfAbsorbsAbsence ==
    alg.op = "min_of" =>
        LET a == alg.args[1]
            b == alg.args[2]
        IN  /\ (~present(a) /\ present(b)) => alg.out = b
            /\ (present(a) /\ ~present(b)) => alg.out = a
            /\ (~present(a) /\ ~present(b)) => alg.out = None

\* ----- C9 -----------------------------------------------------------------
\* folding add, and max_of, over the attribute values starting from None
RECURSIVE fold_add(_, _)
fold_add(nodes, attr) ==
    IF nodes = <<>> THEN None
    ELSE add(fold_add(SubSeq(nodes, 1, Len(nodes) - 1), attr),
             getattr(nodes[Len(nodes)], attr))

RECURSIVE fold_max_of(_, _)
fold_max_of(nodes, attr) ==
    IF nodes = <<>> THEN None
    ELSE max_of(fold_max_of(SubSeq(nodes, 1, Len(nodes) - 1), attr),
                getattr(nodes[Len(nodes)], attr))

\* C9: sum_of equals folding add and best_of equals folding max_of over the
\* collection starting from None, so each is None (never 0) when no node of
\* the collection has the attribute present.
C9_SumOfBestOfNullAware ==
    /\ alg.op = "best_of" => alg.out = fold_max_of(alg.args[1], alg.args[2])
    /\ alg.op = "sum_of" => alg.out = fold_add(alg.args[1], alg.args[2])

\* ----- C10 ----------------------------------------------------------------
\* x and y are tied on the first m keys of by
TiedOn(by, m, x, y) == cmp_fields(SubSeq(by, 1, m), x, y) = 0

\* C10: in the sorted list, for every key of the sort and every two nodes
\* tied on all earlier keys, the node with the key present is placed before
\* the node with the key absent - with the reverse option off and on, for
\* numeric and for non-numeric keys.
C10_PresentBeforeAbsent ==
    srt.op = "sorted" =>
        \A m \in DOMAIN srt.by, i \in DOMAIN srt.out, j \in DOMAIN srt.out :
            (/\ TiedOn(srt.by, m - 1, srt.out[i], srt.out[j])
             /\ present(getattr(srt.out[i], srt.by[m]))
             /\ ~present(getattr(srt.out[j], srt.by[m]))) => i < j

\* ----- C11 ----------------------------------------------------------------
\* the regular files the walk has linked into their directories
LinkedFiles ==
    {f \in DOMAIN node :
        /\ f # Root
        /\ is_file(f)
        /\ f \in node[val(node[f].father)].children}

\* a zero-length file
Empty(f) == is_file(f) /\ fs[f].digest = EMPTY_FILE_MD5_ORIG

\* the files recorded in dup_map
Recorded == UNION {Range(dup_map[k]) : k \in DOMAIN dup_map}

SameHash(h) == {f \in LinkedFiles : md5(f) = h}

\* the lists of dup_map hold the visited files by hash, and dup_set the
\* hashes of the lists of two or more
DupGrouped ==
    (cfg.dup_mode /\ ~cfg.dup_nonempty) =>
        /\ \A f \in LinkedFiles :
               /\ md5(f) \in DOMAIN dup_map
               /\ Range(dup_map[md5(f)]) = SameHash(md5(f))
               /\ Len(dup_map[md5(f)]) = Cardinality(SameHash(md5(f)))
               /\ val(md5(f)) \in dup_set <=> Len(dup_map[md5(f)]) >= 2
        /\ \A h \in dup_set :
               Some(h) \in DOMAIN dup_map /\ Len(dup_map[Some(h)]) >= 2
        /\ \A f \in show_set : Cardinality(SameHash(md5(f))) >= 2

\* a step only appends a file to a list, and a hash enters dup_set in the
\* step that records the second file of its list
DupStep ==
    (cfg.dup_mode /\ ~cfg.dup_nonempty) =>
        /\ \A k \in DOMAIN dup_map :
               present(k) =>
                   /\ k \in DOMAIN dup_map'
                   /\ \/ dup_map'[k] = dup_map[k]
                      \/ \E f \in NodeIds : dup_map'[k] = Append(dup_map[k], f)
        /\ dup_set \subseteq dup_set'
        /\ \A h \in dup_set' \ dup_set :
               /\ Len(dup_map[Some(h)]) = 1
               /\ Len(dup_map'[Some(h)]) = 2

\* C12: in duplicate mode with empty files included, after every step of
\* the walk the visited files of one present content hash (the empty files
\* under the sentinel) are the members of one list under that hash, in
\* visit order; a hash is in dup_set if and only if its list has two
\* members or more, entering it when the second is recorded; a file of
\* unique content is in no duplicate group.
C12_DuplicateGrouping == []DupGrouped /\ [][DupStep]_vars

\* the two empty files a and b are grouped under the sentinel and selected,
\* while c, of unique content, is recorded alone and not selected
C12_Witness ==
    /\ status = "built"
    /\ cfg.dup_mode /\ ~cfg.dup_nonempty
    /\ {"a", "b", "c"} \subseteq LinkedFiles
    /\ Empty("a") /\ Empty("b") /\ ~Empty("c")
    /\ Len(dup_map[Some(EMPTY_FILE_MD5_HASH)]) = 2
    /\ dup_set = {EMPTY_FILE_MD5_HASH}
    /\ Len(dup_map[md5("c")]) = 1
    /\ show_set = {"a", "b"}

\* ----- C13 ----------------------------------------------------------------
\* the innermost call of _gather is about to offer the head of its f_nodes
\* to the selector
Offering ==
    /\ status = "walk"
    /\ stack # <<>>
    /\ Head(stack).pc = "body"
    /\ Head(stack).f_nodes # <<>>
    /\ present(cfg.top_mode)

OfferedFile == Head(Head(stack).f_nodes)

OfferedValue == node_getattr(OfferedFile, node[OfferedFile], val(cfg.top_mode))

\* the step inserts the offered file into the selector and links it
Admits ==
    /\ OfferedFile \in Members'
    /\ OfferedFile \in node'[Head(stack).root].children

\* the step leaves the selector and every node as they were
Skips == top_heap' = top_heap /\ node' = node

PushKeeps(value, which) ==
    LET pushed == push(top_heap, cfg.top_count, value, which)
    IN  /\ Len(pushed) = Len(top_heap)
        /\ Range(pushed) = Range(top_heap)
        /\ next_to_pop(pushed, cfg.top_count) = next_to_pop(top_heap, cfg.top_count)

\* C14: when the selector holds K entries and a value v <= next_to_pop is
\* offered, the selector does not change: the le test of _gather rejects the
\* file, which is not linked into its parent, and push called with v
\* directly leaves the held (value, node) entries and the threshold
\* unchanged.
C14_LowOfferKeepsSelector ==
    [][(/\ Offering
        /\ Len(top_heap) = cfg.top_count
        /\ le(OfferedValue, next_to_pop(top_heap, cfg.top_count))) =>
           /\ Skips
           /\ present(OfferedValue) => PushKeeps(OfferedValue, OfferedFile)]_vars

\* K = 1 on lines: a holds the selector and b, with as many lines as a, was
\* offered at the threshold and is not linked
C14_Witness ==
    /\ status = "built"
    /\ cfg.top_mode = Some("flines")
    /\ cfg.top_count = 1
    /\ cfg.fpred = <<>>
    /\ Members = {"a"}
    /\ "b" \in DOMAIN node /\ is_file("b")
    /\ present(lines("b")) /\ lines("b") = lines("a")
    /\ "b" \notin node[Root].children
    /\ "a" \in node[Root].children

\* ----- C15 ----------------------------------------------------------------
\* C15: after any sequence of offers the selector holds at most K entries;
\* next_to_pop is None exactly when it holds fewer than K, and otherwise it
\* is the smallest of the held values.
C15_SelectorInvariant ==
    LET threshold == next_to_pop(sel.list, sel.capacity)
    IN  /\ Len(sel.list) <= sel.capacity
        /\ threshold = None <=> Len(sel.list) < sel.capacity
        /\ Len(sel.list) = sel.capacity =>
               /\ val(threshold) \in HeldValues
               /\ \A v \in HeldValues : val(threshold) <= v

\* a selector of capacity two or more that is full of distinct values after
\* an eviction, the larger of them pushed first
C15_Witness ==
    /\ sel.capacity >= 2
    /\ Len(sel.list) = sel.capacity
    /\ Len(sel.offered) > sel.capacity
    /\ sel.last = "pushed"
    /\ Cardinality(HeldValues) = sel.capacity
    /\ sel.offered[1] > sel.offered[2]
    /\ C15_SelectorInvariant

\* ----- C16 ----------------------------------------------------------------
\* the files reached from d by children links
RECURSIVE LinkedBelow(_)
LinkedBelow(d) ==
    {f \in node[d].children : ~is_to_dir(f)} \cup
    UNION {LinkedBelow(x) : x \in {y \in node[d].children : is_dir(y)}}

\* those of them that have a line count
Counted(d) == {f \in LinkedBelow(d) : present(lines(f))}

BestLines(S) ==
    CHOOSE m \in {val(lines(x)) : x \in S} : \A x \in S : val(lines(x)) <= m

\* C16: after a walk without top mode that reads lines, the rlines of every
\* listed directory is the sum and its blines the maximum of the line counts
\* of the linked descendant files that have one, and both are None (not 0)
\* when there is none; in the scenario of section 8, walked to any depth,
\* the root has rlines 35 and blines 20.
C16_LineAggregates ==
    (status = "built" /\ ~present(cfg.top_mode) /\ cfg.read_lines) =>
        /\ \A d \in Visited :
               IF Counted(d) = {}
               THEN node[d].rlines = None /\ node[d].blines = None
               ELSE /\ node[d].rlines = Some(SumLines(Counted(d)))
                    /\ node[d].blines = Some(BestLines(Counted(d)))
        /\ (/\ fs = Scenario
            /\ cfg.access_level > 1
            /\ {"a", "c"} \subseteq DOMAIN node) =>
               /\ node[Root].rlines = Some(35)
               /\ node[Root].blines = Some(20)

\* the root sums the lines of a, b and c, c reached through s, while t was
\* listed, is linked and has no lines at all
C16_Witness ==
    /\ status = "built"
    /\ ~present(cfg.top_mode) /\ cfg.read_lines
    /\ LinkedBelow(Root) = {"a", "b", "c"}
    /\ present(lines("a")) /\ ~present(lines("b")) /\ present(lines("c"))
    /\ val(lines("a")) > 0 /\ val(lines("c")) > 0
    /\ "t" \in node["s"].children
    /\ node["t"].rlines = None
    /\ node[Root].rlines = Some(val(lines("a")) + val(lines("c")))

\* ----- C18 ----------------------------------------------------------------
\* C18: for present x and y, max_of(None, x) = x, max_of(x, None) = x,
\* max_of(None, None) is None and max_of(x, y) is the larger; add(None, None)
\* is None, add(None, x) = x, add(x, None) = x and add(x, y) = x + y; both
\* operators are commutative and associative over values or None.
C18_MaxOfAddLaws ==
    LET a == alg.args[1]
        b == alg.args[2]
        c == alg.args[3]
    IN  /\ alg.op = "max_of" =>
               /\ (~present(a) /\ present(b)) => alg.out = b
               /\ (present(a) /\ ~present(b)) => alg.out = a
               /\ (~present(a) /\ ~present(b)) => alg.out = None
               /\ (present(a) /\ present(b)) =>
                      alg.out = Some(IF val(a) >= val(b) THEN val(a) ELSE val(b))
               /\ max_of(b, a) = alg.out
               /\ max_of(alg.out, c) = max_of(a, max_of(b, c))
        /\ alg.op = "add" =>
               /\ (~present(a) /\ present(b)) => alg.out = b
               /\ (present(a) /\ ~present(b)) => alg.out = a
               /\ (~present(a) /\ ~present(b)) => alg.out = None
               /\ (present(a) /\ present(b)) => alg.out = Some(val(a) + val(b))
               /\ add(b, a) = alg.out
               /\ add(alg.out, c) = add(a, add(b, c))

\* max_of was called with an absent first and a present second operand and
\* a third value larger than the second
C18_Witness ==
    /\ alg.op = "max_of"
    /\ ~present(alg.args[1])
    /\ present(alg.args[2]) /\ present(alg.args[3])
    /\ val(alg.args[3]) > val(alg.args[2])
    /\ alg.out = alg.args[2]

\* ----- C19 ----------------------------------------------------------------
\* C19: le is a total preorder over integers or None (reflexive,
\* transitive, any two values comparable) that orders the integers as usual
\* and puts None below every integer; lt is its strict part, so lt(None, x)
\* is true, lt(x, None) false and lt(None, None) false; gt(a, b) = lt(b, a)
\* and ge(a, b) = le(b, a).
C19_TotalPreorder ==
    alg.op = "compare" =>
        LET a == alg.args[1]
            b == alg.args[2]
            c == alg.args[3]
        IN  /\ le(a, a)
            /\ alg.out.le \/ le(b, a)
            /\ (alg.out.le /\ le(b, c)) => le(a, c)
            /\ (~present(a) /\ present(b)) => alg.out.le /\ ~le(b, a)
            /\ (present(a) /\ present(b)) => (alg.out.le <=> val(a) <= val(b))
            /\ alg.out.lt <=> (alg.out.le /\ ~le(b, a))
            /\ (~present(a) /\ present(b)) => alg.out.lt
            /\ (present(a) /\ ~present(b)) => ~alg.out.lt
            /\ (~present(a) /\ ~present(b)) => ~alg.out.lt
            /\ alg.out.gt = lt(b, a)
            /\ alg.out.ge = le(b, a)

\* None was compared with None, with a present third value
C19_Witness ==
    /\ alg.op = "compare"
    /\ ~present(alg.args[1]) /\ ~present(alg.args[2]) /\ present(alg.args[3])
    /\ alg.out = [lt |-> FALSE, le |-> TRUE, gt |-> FALSE, ge |-> TRUE]

\* ----- C17 ----------------------------------------------------------------
\* C17: every lazily computed attribute of a node is computed at most once,
\* whatever its outcome: every later read gives the outcome of the first
\* read, also when the file system changed in between, and a computation
\* that failed is not tried again.
C17_ComputedOnce ==
    \A attr \in CachedAttrs :
        /\ mem.computed[attr] <= 1
        /\ attr \in DOMAIN mem.first => mem.last[attr] = mem.first[attr]

\* ----- C20 ----------------------------------------------------------------
\* C20: a composite predicate accepts a node if and only if every test of
\* every Pattern part accepts it and no test of any Ignore part accepts it,
\* for parts of any number of tests combined with +=; a predicate with no
\* tests accepts every node.
C20_AllowAllDenyNone ==
    prd.op = "call" =>
        prd.out =
            \A i \in DOMAIN prd.parts :
                \A j \in DOMAIN prd.parts[i].preds :
                    IF prd.parts[i].kind = "Pattern"
                    THEN test(prd.parts[i].preds[j], prd.x)
                    ELSE ~test(prd.parts[i].preds[j], prd.x)


\* ----- C21 ----------------------------------------------------------------
\* the two tests of lines 953-956 on the directory object dobj of d
Pruned(d, dobj) ==
    \/ ~Predicate_call(cfg.dpost, d, dobj)
    \/ ~cfg.always_show_dirs /\ dobj.fcount = 0 /\ dobj.dcount = 0

\* the walk of the innermost directory returns to the call above it
ReturnStep ==
    /\ status = "walk"
    /\ Len(stack) > 1
    /\ Returning(Head(stack))

\* the innermost call meets a directory at the access level
TruncateStep ==
    /\ status = "walk"
    /\ stack # <<>>
    /\ Head(stack).pc = "body"
    /\ Head(stack).f_nodes = <<>>
    /\ Head(stack).d_nodes # <<>>
    /\ ~is_link(Head(Head(stack).d_nodes))
    /\ ~may_descend(Head(stack).level)

\* a directory whose walk has not returned is not linked into its parent
NotYetLinked ==
    \A i \in 1..(Len(stack) - 1) :
        stack[i].root \notin node[stack[i + 1].root].children

\* the parent object is left as it was when the subdirectory is pruned
PruneStep ==
    /\ ReturnStep =>
           LET d == Head(stack).root
               parent == stack[2].root
           IN  Pruned(d, node[d]) =>
                   /\ node'[parent] = node[parent]
                   /\ d \notin node'[parent].children
    /\ TruncateStep =>
           LET d == Head(Head(stack).d_nodes)
               parent == Head(stack).root
           IN  Pruned(d, node'[d]) =>
                   /\ node'[parent] = node[parent]
                   /\ d \notin node'[parent].children

\* C21: a non-link subdirectory that fails the post-filter, or that has
\* fcount = 0 and dcount = 0 while directories are not always shown, is left
\* out of its parent's children and changes none of the parent's counts and
\* rolled-up values; the tests are made on the subdirectory as its own walk
\* left it, and until that walk has returned it is not linked.
C21_Pruning == []NotYetLinked /\ [][PruneStep]_vars

\* s was listed and holds the one-line file c, fails the post-filter on
\* total lines and is not among the children of the root, whose counts are
\* those of its own files
C21_Witness ==
    /\ status = "built"
    /\ ~present(cfg.top_mode)
    /\ cfg.dpost # <<>>
    /\ "s" \in Visited
    /\ node["s"].children = {"c"}
    /\ node["s"].fcount = 1
    /\ ~Predicate_call(cfg.dpost, "s", node["s"])
    /\ "s" \notin node[Root].children
    /\ node[Root].children # {}
    /\ node[Root].fcount = Cardinality(node[Root].children)
    /\ node[Root].dcount = 0

\* ----- C22 ----------------------------------------------------------------
\* what the display shows of a tree built in top mode
TopDisplay ==
    (status = "built" /\ present(cfg.top_mode)) =>
        \A n \in print_lines :
            IF is_to_dir(n)
            THEN n = Root \/ \E m \in Members : m \in Below(n)
            ELSE n \in Members

\* a node linked into a directory stays linked
StaysLinked ==
    \A d \in DOMAIN node :
        is_dir(d) => node[d].children \subseteq node'[d].children

\* C22: in top mode a file is printed only if it is a member of the final
\* selector and a directory only if it is the root or an ancestor of a
\* member; children links are never removed, so a file that was admitted
\* and later evicted stays linked in its parent's children and is not
\* printed.
C22_DisplayBySelector == []TopDisplay /\ [][StaysLinked]_vars

\* K = 1: a was admitted, then evicted by c of the subdirectory s; a is
\* still a child of the root and is not printed, s and c are
C22_Witness ==
    /\ status = "built"
    /\ present(cfg.top_mode)
    /\ Members = {"c"}
    /\ "a" \in node[Root].children
    /\ "a" \notin print_lines
    /\ print_lines = {Root, "s", "c"}

\* ----- C23 ----------------------------------------------------------------
\* the proper ancestors of n by father links
RECURSIVE Fathers(_)
Fathers(n) ==
    IF ~present(node[n].father) THEN {}
    ELSE {val(node[n].father)} \cup Fathers(val(node[n].father))

\* C23: _save_father terminates for every selected node (the root is in
\* save_set from the start and every father chain ends at the root), and
\* save_set is exactly the root plus the proper ancestors of the selected
\* nodes: it is closed under father links and holds no directory that is
\* not an ancestor of a selected node.
C23_SaveSetIsAncestors ==
    node # <<>> =>
        /\ Root \in save_set
        /\ \A n \in DOMAIN node \ {Root} : Root \in Fathers(n)
        /\ save_set = {Root} \cup UNION {Fathers(n) : n \in show_set}
        /\ \A d \in save_set \ {Root} : val(node[d].father) \in save_set

\* a selected file two directories below the root, and a directory with a
\* child that is not an ancestor of a selected node
C23_Witness ==
    /\ node # <<>>
    /\ \E n \in show_set : Cardinality(Fathers(n)) = 3
    /\ \E d \in DOMAIN node \ save_set : IsFather(d)
    /\ C23_SaveSetIsAncestors

\* ----- C24 ----------------------------------------------------------------
\* the deepest level of a directory of the file system that is no link
RealDepth ==
    CHOOSE m \in 1..3 :
        /\ \E d \in NodeIds : (d = Root \/ fs[d].kind = "dir") /\ Level(d) = m
        /\ \A d \in NodeIds : (d = Root \/ fs[d].kind = "dir") => Level(d) <= m

\* no active call of _gather is on a symbolic link
NoLinkGathered ==
    \A i \in DOMAIN stack : fs[stack[i].root].kind # "dirlink"

\* no active call of _gather made by the recursion is on a symbolic link, and
\* the calls are no more than the real directory tree is deep
NoLinkEntered ==
    /\ \A i \in 1..(Len(stack) - 1) : fs[stack[i].root].kind = "dir"
    /\ stack # <<>> => Head(stack).level = Len(stack)
    /\ Len(stack) <= RealDepth

\* a step that calls _gather calls it on a directory that was neither
\* gathered nor truncated before
GatherOnce ==
    Len(stack') > Len(stack) =>
        /\ Head(stack').root \notin Visited
        /\ \A i \in DOMAIN stack : stack[i].root # Head(stack').root

\* C24 as claimed: during one run _gather is invoked at most once per
\* directory node and never on a symbolic link, so the depth of the
\* recursion is bounded by the depth of the real directory tree.
C24_NeverOnLink == []NoLinkGathered /\ []NoLinkEntered /\ [][GatherOnce]_vars

\* C24 as amended: _gather is invoked at most once per directory node and
\* the recursion never invokes it on a symbolic link met in a listing; the
\* one link it can be invoked on is the root path itself, a symbolic link
\* to a directory; the depth of the recursion is bounded by the depth of
\* the real directory tree.
C24_NoLinkFollowed == []NoLinkEntered /\ [][GatherOnce]_vars

\* the root is a symbolic link whose listing the walk went through: the
\* link b to a directory was passed over and the directory s is being
\* gathered by the one recursive call
C24_Witness ==
    /\ status = "walk"
    /\ fs[Root].kind = "dirlink"
    /\ Len(stack) = 2
    /\ Head(stack).root = "s"
    /\ Head(stack).pc = "body"
    /\ fs["b"].kind = "dirlink"
    /\ "b" \in DOMAIN node /\ "b" \notin Visited
    /\ "b" \notin Range(stack[2].d_nodes)

\* ----- C25 ----------------------------------------------------------------
\* the selector of the walk is full
Full(heap) == Len(heap) = cfg.top_count

\* C25: once the walk's selector holds K entries, every later step leaves it
\* with exactly K entries and with a next_to_pop that is not smaller than
\* before.
C25_ThresholdMonotone ==
    [][(present(cfg.top_mode) /\ Full(top_heap)) =>
           /\ Full(top_heap')
           /\ present(next_to_pop(top_heap, cfg.top_count))
           /\ present(next_to_pop(top_heap', cfg.top_count))
           /\ val(next_to_pop(top_heap, cfg.top_count)) <=
                  val(next_to_pop(top_heap', cfg.top_count))]_vars

\* K = 2: a and b filled the selector, then c of the subdirectory s evicted
\* a, the smaller of the two, and the threshold rose
C25_Witness ==
    /\ status = "built"
    /\ present(cfg.top_mode)
    /\ cfg.top_count = 2
    /\ Members = {"b", "c"}
    /\ "a" \in node[Root].children
    /\ LET value(f) == val(node_getattr(f, node[f], val(cfg.top_mode)))
       IN  /\ value("a") < value("b")
           /\ value("a") < value("c")
           /\ val(next_to_pop(top_heap, cfg.top_count)) > value("a")

\* ----- C26 ----------------------------------------------------------------
\* the directories a walk of this file system with this configuration lists,
\* whatever the order of the listings, and whose os.listdir did not fail
ListedDirs ==
    {d \in NodeIds :
        /\ d = Root \/ fs[d].kind = "dir"
        /\ \A l \in 1..(Level(d) - 1) : may_descend(l)
        /\ d \in DOMAIN node
        /\ Entries(d) \subseteq DOMAIN node}

\* the ranking value of a file
RankOf(f) == node_getattr(f, Node(f, None), val(cfg.top_mode))

\* the files such a walk offers to the selector with a present value
Offerable ==
    {f \in UNION {Entries(d) : d \in ListedDirs} :
        /\ ~is_to_dir(f)
        /\ Predicate_call(cfg.fpred, f, Node(f, None))
        /\ present(RankOf(f))}

DistinctRanks ==
    \A f \in Offerable, g \in Offerable : f # g => RankOf(f) # RankOf(g)

\* the K of them with the largest values
TopFiles ==
    {f \in Offerable :
        Cardinality({g \in Offerable : val(RankOf(g)) > val(RankOf(f))})
            < cfg.top_count}

\* C26: in top mode, when all offered ranking values are distinct, the nodes
\* held by the final selector are the same in every order in which the
\* entries of each directory are listed: they are the K offered files with
\* the largest values, which the file system and the options determine.
C26_SelectionDeterministic ==
    (status = "built" /\ present(cfg.top_mode) /\ DistinctRanks) =>
        Members = TopFiles

\* three files of distinct values for K = 2, listed in an order in which
\* the smallest was admitted first and evicted later
C26_Witness ==
    /\ status = "built"
    /\ present(cfg.top_mode)
    /\ cfg.top_count = 2
    /\ DistinctRanks
    /\ Offerable = {"a", "b", "c"}
    /\ Members = TopFiles
    /\ \E f \in Offerable \ Members : f \in node[val(node[f].father)].children
    /\ \E f \in Members : f \in Place("s")

\* ----- C27 ----------------------------------------------------------------
\* the directory-like nodes reached from d by children links
RECURSIVE DirsBelow(_)
DirsBelow(d) ==
    {x \in node[d].children : is_to_dir(x)} \cup
    UNION {DirsBelow(x) : x \in {y \in node[d].children : is_dir(y)}}

\* C27: after the walk, in any mode, the fcount of every listed directory is
\* the number of non-directory nodes and its dcount the number of
\* directory-like nodes reached below it by children links, itself not
\* counted and a linked symbolic link to a directory counted once; both
\* counts of a truncated directory are 0.
C27_CountsAgreeWithLinks ==
    status = "built" =>
        \A d \in Visited :
            /\ node[d].fcount = Cardinality(LinkedBelow(d))
            /\ node[d].dcount = Cardinality(DirsBelow(d))
            /\ Truncated(d) => node[d].fcount = 0 /\ node[d].dcount = 0

\* directories always shown and access level 2: the root links the file a,
\* the link b to a directory and s, which links the file c and the
\* truncated directory t
C27_Witness ==
    /\ status = "built"
    /\ cfg.always_show_dirs
    /\ fs["b"].kind = "dirlink"
    /\ node[Root].children = {"a", "b", "s"}
    /\ node["s"].children = {"c", "t"}
    /\ Truncated("t")
    /\ node[Root].fcount = 2
    /\ node[Root].dcount = 3
    /\ node["s"].dcount = 1

\* ----- C28 ----------------------------------------------------------------
\* the files below d that the selector holds
HeldBelow(d) == Members \cap Below(d)

Compare(op, x, y) ==
    IF op = "<" THEN x < y
    ELSE IF op = "<=" THEN x <= y
    ELSE IF op = ">" THEN x > y
    ELSE x >= y

\* C29: for each filter operator as make wires it and every present bound,
\* a node whose filtered attribute is absent fails the filter, and for a
\* present attribute the filter agrees with the ordinary numeric comparison.
C29_FiltersRejectAbsent ==
    alg.op = "filter" =>
        LET a == getattr(alg.args[1], alg.args[2])
            op == alg.args[3]
            v == alg.args[4]
        IN  IF present(a) THEN alg.out = Compare(op, val(a), v)
            ELSE alg.out = FALSE

\* "flines<3" applied to a node without a line count: rejected, although
\* lt takes an absent value for smaller than any number
C29_Witness ==
    /\ alg.op = "filter"
    /\ alg.args[2] = "flines"
    /\ alg.args[3] = "<"
    /\ ~present(alg.args[1].flines)
    /\ present(alg.args[1].fsize)
    /\ lt(alg.args[1].flines, Some(alg.args[4]))
    /\ alg.out = FALSE

\* ----- C30 ----------------------------------------------------------------
\* cmp on two nodes of the sorted list
CmpOf(x, y) == cmp(srt.by, Some(x), Some(y))

\* the keys before the p-th do not tell x from y
SameBefore(p, x, y) ==
    \A q \in 1..(p - 1) : getattr(x, srt.by[q]) = getattr(y, srt.by[q])

\* the p-th key decides between two present, different values: the larger
\* number first, the smaller string first
DecidedBy(p, x, y) ==
    LET af == getattr(x, srt.by[p])
        bf == getattr(y, srt.by[p])
    IN  (SameBefore(p, x, y) /\ present(af) /\ present(bf) /\ af # bf) =>
            CmpOf(x, y) = IF val(af).num
                          THEN (IF val(af).v > val(bf).v THEN -1 ELSE 1)
                          ELSE (IF val(af).v < val(bf).v THEN -1 ELSE 1)

\* C30: the comparator of fields_to_cmp is a consistent ordering of nodes
\* whose key values may be absent, for every list of keys: cmp(a, a) = 0,
\* cmp(a, b) = -cmp(b, a), and cmp(a, b) <= 0 and cmp(b, c) <= 0 imply
\* cmp(a, c) <= 0; when both values of a key are present, numeric keys order
\* larger-first and non-numeric keys ascending.
C30_ComparatorConsistent ==
    srt.op = "cmp" =>
        \A i \in DOMAIN srt.nodes, j \in DOMAIN srt.nodes, k \in DOMAIN srt.nodes :
            LET a == srt.nodes[i]
                b == srt.nodes[j]
                c == srt.nodes[k]
            IN  /\ CmpOf(a, a) = 0
                /\ CmpOf(a, b) = -CmpOf(b, a)
                /\ (CmpOf(a, b) <= 0 /\ CmpOf(b, c) <= 0) => CmpOf(a, c) <= 0
                /\ \A p \in DOMAIN srt.by : DecidedBy(p, a, b)
                /\ srt.out = <<CmpOf(srt.nodes[1], srt.nodes[2]),
                               CmpOf(srt.nodes[2], srt.nodes[3]),
                               CmpOf(srt.nodes[1], srt.nodes[3])>>

\* comparing by lines, then md5: a node without lines, and two nodes that
\* tie on lines and differ on md5, all three different under the comparator
C30_Witness ==
    /\ srt.op = "cmp"
    /\ srt.by = <<"lines", "md5">>
    /\ Len(srt.nodes) = 3
    /\ ~present(srt.nodes[1].lines)
    /\ present(srt.nodes[2].lines)
    /\ srt.nodes[2].lines = srt.nodes[3].lines
    /\ present(srt.nodes[2].md5) /\ present(srt.nodes[3].md5)
    /\ val(srt.nodes[2].md5).v > val(srt.nodes[3].md5).v
    /\ CmpOf(srt.nodes[3], srt.nodes[2]) = -1
    /\ CmpOf(srt.nodes[2], srt.nodes[1]) = -1
    /\ CmpOf(srt.nodes[3], srt.nodes[1]) = -1
    /\ srt.out = <<1, 1, 1>>
====
